---- MODULE Spec2Model ----
(***************************************************************************)
(* A state-machine model of qiskit/_quantumprogram.py (class               *)
(* QuantumProgram): the circuit catalog, compile, the execution queue,     *)
(* run with its remote and local dispatch, wait_for_job and the result     *)
(* accessors.  The collaborators (remote API, unroller, simulators) are    *)
(* the environment: every answer they can give is a nondeterministic       *)
(* choice.  A Python exception that leaves a method is modelled as a       *)
(* return record of kind "raise"; the object stays usable afterwards.      *)
(* The methods that only compute (average_data, and estimate with          *)
(* _remove_identity of hamiltonian_phase_estimation.py) are operators,     *)
(* applied by specifications of their own that draw the arguments.         *)
(***************************************************************************)
EXTENDS Integers, Sequences, FiniteSets, TLC

\* ------------------------------------------------------------------ bounds
MaxQueue == 3        \* jobs queued in __to_execute, all devices together
MaxNames == 2        \* length of a name_of_circuits list
MaxWait == 2         \* wait of a direct wait_for_job call
MaxTimeout == 3      \* timeout of a direct wait_for_job call
MaxRunWait == 1      \* wait handed to run / execute
MaxRunTimeout == 1   \* timeout handed to run / execute

\* The timer grows without bound while the status stays RUNNING.  Every value
\* above the largest timeout behaves alike (timer == timeout is false for
\* good), so a counter that passes TimerCap is folded back to the first value
\* above the largest timeout: the loop then goes round a cycle of states.
TimerCap == MaxTimeout + MaxWait + 1

\* ------------------------------------------------------------- input sets
Names == {"c1", "c2"}
CircuitObjects == {"qc"}
\* The (device, shots, max_credits) a caller compiles with: on the hosted
\* device every way two jobs can agree or differ, on the sampling engine the
\* one-shot and the many-shot branch.
CompileTargets ==
    {<<"ibmqx2", 1, 3>>, <<"ibmqx2", 2, 3>>, <<"ibmqx2", 2, 5>>,
     <<"local_qasm_simulator", 1, 3>>, <<"local_qasm_simulator", 2, 3>>,
     <<"local_unitary_simulator", 1, 3>>, <<"bogus", 1, 3>>}
BasisInputs == {"None"}
CouplingInputs == {"None"}
SeedInputs == {"None"}
RandomSeed == "random"

online_devices == {"real", "ibmqx2", "ibmqx3", "simulator", "ibmqx_qasm_simulator"}
local_devices == {"local_unitary_simulator", "local_qasm_simulator"}
Devices == {"ibmqx2", "local_qasm_simulator", "local_unitary_simulator", "bogus"}

DefaultBasis == "u1,u2,u3,cx,id"

RECURSIVE SeqsUpTo(_, _)
SeqsUpTo(S, n) ==
    IF n = 0 THEN {<<>>}
    ELSE LET shorter == SeqsUpTo(S, n - 1)
         IN  shorter \cup {Append(s, x) : s \in {t \in shorter : Len(t) = n - 1}, x \in S}

NameLists == SeqsUpTo(Names, MaxNames)

\* ------------------------------------------------------------------ state
VARIABLES
    circuits,             \* __quantum_program["circuits"]
    to_execute,           \* __to_execute, a dict in insertion order
    last_device_backend,  \* __last_device_backend
    pc,                   \* "idle", "run_loop" (head of run's for), "wait_loop" (head of the while)
    caller,               \* the public method in progress
    runIdx,               \* position of run's for loop in the dict's keys
    wfj,                  \* wait_for_job's frame: wait, timeout, timer, job
    ret,                  \* what the last public call returned or raised
    before,               \* history: __to_execute when the last run (also execute's) began
    invoked,              \* history: devices whose batch the last run handed to a collaborator
    clean,                \* history: no batch, device name or collaborator was in error in the last run
    last_job_result,      \* history: run's job_result, as last assigned in the last run
    runs_of,              \* history: per tracked (circuit, device), the clean runs that dispatched it
    calc                  \* the last call of a method that only computes: its arguments and outcome

vars ==
    <<circuits, to_execute, last_device_backend, pc, caller, runIdx, wfj, ret, before,
      invoked, clean, last_job_result, runs_of, calc>>

\* ------------------------------------------------------------ Python dicts
NoResult == [kind |-> "None", a |-> 0, b |-> 0]

\* A returned dict: {"status": ..., "result": ...} or a job payload of the API.
Dict(status, result, has_qasms, qasms) ==
    [status |-> status, result |-> result, has_qasms |-> has_qasms, qasms |-> qasms]

ErrorDict(result) == Dict("Error", result, FALSE, <<>>)

CompletedDict == Dict("COMPLETED", "all done", FALSE, <<>>)

Return(op, d) ==
    [op |-> op, kind |-> "return", status |-> d.status, result |-> d.result,
     has_qasms |-> d.has_qasms, qasms |-> d.qasms]

Raise(op, exception, what) ==
    [op |-> op, kind |-> "raise", status |-> exception, result |-> what,
     has_qasms |-> FALSE, qasms |-> <<>>]

NoRet == [op |-> "none", kind |-> "return", status |-> "None", result |-> "None",
          has_qasms |-> FALSE, qasms |-> <<>>]

\* ---------------------------------------------------------------- catalog
\* None, for the fields that hold an object (a tuple of strings in the model).
NoneValue == <<>>

NoRecord ==
    [present |-> FALSE, qasm_compiled |-> NoneValue, coupling_map |-> "None",
     basis_gates |-> "None", compiled_circuit |-> NoneValue, shots |-> 0,
     max_credits |-> 0, result |-> NoResult, status |-> "None"]

NoExecution == [d \in Devices |-> NoRecord]

\* An entry of "circuits".  has_execution says whether the entry holds the
\* key "execution"; execution is its value then.
NoCircuit ==
    [present |-> FALSE, circuit |-> "None", has_execution |-> FALSE, execution |-> NoExecution]

NewCircuit(circuit_object) ==
    [present |-> TRUE, circuit |-> circuit_object, has_execution |-> FALSE,
     execution |-> NoExecution]

\* ------------------------------------------------------------------ queue
QueueDevices(q) == {q[i].device : i \in 1..Len(q)}

QueueIndex(q, device) == CHOOSE i \in 1..Len(q) : q[i].device = device

QueueJobs(q, device) ==
    IF device \in QueueDevices(q) THEN q[QueueIndex(q, device)].jobs ELSE <<>>

RECURSIVE QueueSize(_)
QueueSize(q) == IF q = <<>> THEN 0 ELSE Len(Head(q).jobs) + QueueSize(Tail(q))

\* self.__to_execute[device] = []  when the key is new
QueueCreate(q, device) ==
    IF device \in QueueDevices(q) THEN q ELSE Append(q, [device |-> device, jobs |-> <<>>])

\* self.__to_execute[device].append(job)
\* (The first definition is a variant that drops what the device had queued;
\* C16 does not hold of it.)
QueueAppend_replacing(q, device, job) ==
    [q EXCEPT ![QueueIndex(q, device)].jobs = <<job>>]

QueueAppend(q, device, job) ==
    [q EXCEPT ![QueueIndex(q, device)].jobs = Append(@, job)]

\* ---------------------------------------------------------------- compile
\* unroller_code: the unroller is opaque; its output is named by what it was
\* given.  "not basis_gates" selects the default basis.
unroller_code(circuit, basis_gates) ==
    <<circuit, IF basis_gates = "None" THEN DefaultBasis ELSE basis_gates, "unmapped">>

\* The qasm after the mapping pass: swap_mapper, unroller_code(dag_unrolled)
\* with the default basis, direction_mapper, cx_cancellation, optimize_1q_gates.
mapped_qasm(circuit) == <<circuit, DefaultBasis, "mapped">>

\* unroll.Unroller(qasm.Qasm(data=qasm_compiled).parse(), unroll.SimulatorBackend(basis_gates))
simulator_circuit(qasm_compiled, basis_gates) == <<"sim", basis_gates>> \o qasm_compiled

\* The job dict compile builds for one circuit name.
\* (The first definition is a variant that builds the simulator's circuit for
\* every device; C17 does not hold of it.)
compile_job_always_simulated(name, device, shots, max_credits, basis_gates, coupling_map, seed) ==
    LET circuit == circuits[name].circuit
        qasm_compiled == IF coupling_map # "None" THEN mapped_qasm(circuit)
                         ELSE unroller_code(circuit, basis_gates)
    IN  [name |-> name,
         qasm_compiled |-> qasm_compiled,
         coupling_map |-> coupling_map,
         basis_gates |-> basis_gates,
         compiled_circuit |-> simulator_circuit(qasm_compiled, basis_gates),
         shots |-> shots,
         max_credits |-> max_credits,
         seed |-> IF seed # "None" THEN seed ELSE RandomSeed]

compile_job(name, device, shots, max_credits, basis_gates, coupling_map, seed) ==
    LET circuit == circuits[name].circuit
        qasm_compiled == IF coupling_map # "None" THEN mapped_qasm(circuit)
                         ELSE unroller_code(circuit, basis_gates)
        local == device \in {"local_unitary_simulator", "local_qasm_simulator"}
    IN  [name |-> name,
         qasm_compiled |-> qasm_compiled,
         coupling_map |-> coupling_map,
         basis_gates |-> basis_gates,
         compiled_circuit |-> IF local THEN simulator_circuit(qasm_compiled, basis_gates)
                              ELSE NoneValue,
         shots |-> shots,
         max_credits |-> max_credits,
         seed |-> IF ~local THEN "None" ELSE IF seed # "None" THEN seed ELSE RandomSeed]

\* The for loop of compile from its i-th name on: [to_execute, ret].
\* (The first definition is a variant that creates the device's list before
\* it looks the name up; C23 does not hold of it.)
RECURSIVE compile_loop_key_first(_, _, _, _, _, _, _, _, _)
compile_loop_key_first(q, names, i, device, shots, max_credits, basis_gates, coupling_map, seed) ==
    IF i > Len(names) THEN [to_execute |-> q, ret |-> CompletedDict]
    ELSE IF ~circuits[names[i]].present
    THEN [to_execute |-> QueueCreate(q, device), ret |-> ErrorDict("not in QuantumProgram")]
    ELSE compile_loop_key_first(
             QueueAppend(QueueCreate(q, device), device,
                         compile_job(names[i], device, shots, max_credits,
                                     basis_gates, coupling_map, seed)),
             names, i + 1, device, shots, max_credits, basis_gates, coupling_map, seed)

RECURSIVE compile_loop(_, _, _, _, _, _, _, _, _)
compile_loop(q, names, i, device, shots, max_credits, basis_gates, coupling_map, seed) ==
    IF i > Len(names) THEN [to_execute |-> q, ret |-> CompletedDict]
    ELSE IF ~circuits[names[i]].present
    THEN [to_execute |-> q, ret |-> ErrorDict("not in QuantumProgram")]
    ELSE compile_loop(
             QueueAppend(QueueCreate(q, device), device,
                         compile_job(names[i], device, shots, max_credits,
                                     basis_gates, coupling_map, seed)),
             names, i + 1, device, shots, max_credits, basis_gates, coupling_map, seed)

\* compile as a function of the queue: [to_execute, ret].
compile_result(q, names, device, shots, max_credits, basis_gates, coupling_map, seed) ==
    IF names = <<>> THEN [to_execute |-> q, ret |-> ErrorDict("No circuits")]
    ELSE compile_loop(q, names, 1, device, shots, max_credits, basis_gates, coupling_map, seed)

NoJobPayload == Dict("None", "None", FALSE, <<>>)

\* What the history keeps of a job_result that run obtained for backend: its
\* status and result, whether it holds "qasms", and how many.
JobResult(backend, d) ==
    [backend |-> backend, status |-> d.status, result |-> d.result,
     has_qasms |-> d.has_qasms, count |-> Len(d.qasms)]

NoJobResult == JobResult("", NoJobPayload)

\* wait_for_job's frame; sleeps, queries and running count the calls of
\* time.sleep, of get_job, and the RUNNING answers among them.
NoFrame ==
    [wait |-> 0, timeout |-> 0, timer |-> 0, job |-> NoJobPayload,
     sleeps |-> 0, queries |-> 0, running |-> 0]

\* No computing method has been called yet.
NoCalc == [op |-> "none"]

\* The object after __init__(); tracked is the scope of the history runs_of.
InitTracking(tracked) ==
    /\ circuits = [n \in Names |-> NoCircuit]
    /\ to_execute = <<>>
    /\ last_device_backend = ""
    /\ pc = "idle"
    /\ caller = "none"
    /\ runIdx = 0
    /\ wfj = NoFrame
    /\ ret = NoRet
    /\ before = <<>>
    /\ invoked = {}
    /\ clean = TRUE
    /\ last_job_result = NoJobResult
    /\ runs_of = [p \in tracked |-> 0]
    /\ calc = NoCalc

Init == InitTracking({})

\* add_circuit(name, circuit_object)
\* (The first definition is a variant that also drops what is queued; C29
\* does not hold of it.)
add_circuit_dropping_jobs(name, circuit_object) ==
    /\ pc = "idle"
    /\ circuits' = [circuits EXCEPT ![name] = NewCircuit(circuit_object)]
    /\ to_execute' = <<>>
    /\ ret' = Return("add_circuit", Dict("object", circuit_object, FALSE, <<>>))
    /\ before' = <<>>
    /\ invoked' = {}
    /\ clean' = TRUE
    /\ last_job_result' = NoJobResult
    /\ UNCHANGED <<last_device_backend, pc, caller, runIdx, wfj, runs_of, calc>>

add_circuit(name, circuit_object) ==
    /\ pc = "idle"
    /\ circuits' = [circuits EXCEPT ![name] = NewCircuit(circuit_object)]
    /\ ret' = Return("add_circuit", Dict("object", circuit_object, FALSE, <<>>))
    /\ before' = <<>>
    /\ invoked' = {}
    /\ clean' = TRUE
    /\ last_job_result' = NoJobResult
    /\ UNCHANGED <<to_execute, last_device_backend, pc, caller, runIdx, wfj, runs_of, calc>>

\* compile(name_of_circuits, device, shots, max_credits, basis_gates, coupling_map, seed)
compile(names, device, shots, max_credits, basis_gates, coupling_map, seed) ==
    /\ pc = "idle"
    /\ QueueSize(to_execute) + Len(names) <= MaxQueue
    /\ LET r == compile_result(to_execute, names, device, shots, max_credits,
                                basis_gates, coupling_map, seed)
       IN  /\ to_execute' = r.to_execute
           /\ ret' = Return("compile", r.ret)
    /\ before' = <<>>
    /\ invoked' = {}
    /\ clean' = TRUE
    /\ last_job_result' = NoJobResult
    /\ UNCHANGED <<circuits, last_device_backend, pc, caller, runIdx, wfj, runs_of, calc>>

\* -------------------------------------------------------- the remote API
Statuses == {"RUNNING", "COMPLETED", "CANCELLED", "ERROR_CREATING_JOB", "ERROR_RUNNING_JOB"}

RemoteResults(k) ==
    [i \in 1..k |-> [result |-> [kind |-> "remote", a |-> i, b |-> 0], status |-> "DONE"]]

\* What get_job can answer: a RUNNING job has no results yet; any other
\* payload holds a "qasms" list of any length, or none.
Payloads ==
    {Dict("RUNNING", "None", FALSE, <<>>)}
    \cup {Dict(s, "None", FALSE, <<>>) : s \in Statuses \ {"RUNNING"}}
    \cup {Dict(s, "None", TRUE, RemoteResults(k)) : s \in Statuses \ {"RUNNING"}, k \in 0..MaxQueue}

\* ------------------------------------------------------ the local engines
\* What the simulator does on each job of a batch: it raises, or it returns;
\* zeros is the number of trials (of job.shots) that measured "0".
RECURSIVE SimOutcomes(_)
SimOutcomes(jobs) ==
    IF jobs = <<>> THEN {<<>>}
    ELSE {<<[raises |-> r, zeros |-> z]>> \o rest :
              r \in BOOLEAN, z \in 0..Head(jobs).shots, rest \in SimOutcomes(Tail(jobs))}

\* run_local_qasm_simulator from its i-th job on.  No exception of the
\* simulator is caught: the first one leaves the method.
RECURSIVE qasm_simulator_loop(_, _, _, _)
qasm_simulator_loop(jobs, sims, i, qasms) ==
    IF i > Len(jobs) THEN [raised |-> FALSE, qasms |-> qasms]
    ELSE IF sims[i].raises THEN [raised |-> TRUE, qasms |-> qasms]
    ELSE LET one_result ==
                 IF jobs[i].shots = 1
                 THEN [result |-> [kind |-> "state", a |-> sims[i].zeros, b |-> 0],
                       status |-> "COMPLETED"]
                 ELSE [result |-> [kind |-> "counts", a |-> sims[i].zeros,
                                   b |-> jobs[i].shots - sims[i].zeros],
                       status |-> "COMPLETED"]
         IN  qasm_simulator_loop(jobs, sims, i + 1, Append(qasms, one_result))

run_local_qasm_simulator(jobs, sims) == qasm_simulator_loop(jobs, sims, 1, <<>>)

RECURSIVE unitary_simulator_loop(_, _, _, _)
unitary_simulator_loop(jobs, sims, i, qasms) ==
    IF i > Len(jobs) THEN [raised |-> FALSE, qasms |-> qasms]
    ELSE IF sims[i].raises THEN [raised |-> TRUE, qasms |-> qasms]
    ELSE unitary_simulator_loop(jobs, sims, i + 1,
             Append(qasms, [result |-> [kind |-> "unitary", a |-> 0, b |-> 0],
                            status |-> "COMPLETED"]))

run_local_unitary_simulator(jobs, sims) == unitary_simulator_loop(jobs, sims, 1, <<>>)

\* -------------------------------------------------------------------- run
\* The batch check of the remote path, from the i-th job on: which test
\* failed ("None" when none did) and the shots and credits to submit.
\* A variant of the batch test that compares the shots only; C6 does not hold
\* of it.
batch_check_shots_only(jobs) ==
    IF jobs = <<>>
    THEN [error |-> "None", last_shots |-> -1, last_max_credits |-> -1]
    ELSE [error |-> IF \E i \in 1..Len(jobs) : jobs[i].shots # jobs[1].shots
                    THEN "Online devices only support job batches with equal numbers of shots"
                    ELSE "None",
          last_shots |-> jobs[1].shots, last_max_credits |-> jobs[1].max_credits]

RECURSIVE batch_loop(_, _, _, _)
batch_loop(jobs, i, last_shots, last_max_credits) ==
    IF i > Len(jobs)
    THEN [error |-> "None", last_shots |-> last_shots, last_max_credits |-> last_max_credits]
    ELSE IF last_shots # -1 /\ last_shots # jobs[i].shots
    THEN [error |-> "Online devices only support job batches with equal numbers of shots",
          last_shots |-> last_shots, last_max_credits |-> last_max_credits]
    ELSE IF last_max_credits # -1 /\ last_max_credits # jobs[i].max_credits
    THEN [error |-> "Online devices only support job batches with equal max credits",
          last_shots |-> last_shots, last_max_credits |-> last_max_credits]
    ELSE batch_loop(jobs, i + 1,
                    IF last_shots = -1 THEN jobs[i].shots ELSE last_shots,
                    IF last_max_credits = -1 THEN jobs[i].max_credits ELSE last_max_credits)

batch_check(jobs) == batch_loop(jobs, 1, -1, -1)

\* The record run stores for a job and its result.
execution_record(job, one_result) ==
    [present |-> TRUE, qasm_compiled |-> job.qasm_compiled, coupling_map |-> job.coupling_map,
     basis_gates |-> job.basis_gates, compiled_circuit |-> job.compiled_circuit,
     shots |-> job.shots, max_credits |-> job.max_credits,
     result |-> one_result.result, status |-> one_result.status]

\* The test that guards the creation of the "execution" dict: it reads the
\* key, which raises KeyError when the entry has none.
execution_missing(entry) == ~entry.has_execution

\* "Fill data into self.__quantum_program for this backend", from the i-th
\* job on: the catalog it leaves and how it ended.
RECURSIVE fill_loop(_, _, _, _, _)
fill_loop(circs, backend, jobs, qasms, i) ==
    IF i > Len(jobs) THEN [circuits |-> circs, outcome |-> "done"]
    ELSE LET name == jobs[i].name
         IN  IF ~circs[name].present THEN [circuits |-> circs, outcome |-> "not found"]
             ELSE IF execution_missing(circs[name])
             THEN [circuits |-> circs, outcome |-> "KeyError"]
             ELSE LET execution == circs[name].execution
                  IN  fill_loop(
                          [circs EXCEPT ![name].execution =
                              [execution EXCEPT ![backend] = execution_record(jobs[i], qasms[i])]],
                          backend, jobs, qasms, i + 1)

\* ------------------------------------------------------------ leaving run
\* The jobs of the queue q that are named name on device.
JobsOf(q, name, device) ==
    LET jobs == QueueJobs(q, device)
    IN  {i \in 1..Len(jobs) : jobs[i].name = name}

\* runs_of when a run ends: a clean run counts for every tracked pair that
\* had a job in a batch handed to a collaborator.
RunsAfter(ok, inv) ==
    [p \in DOMAIN runs_of |->
        IF ok /\ p[2] \in inv /\ JobsOf(before, p[1], p[2]) # {} /\ runs_of[p] < 2
        THEN runs_of[p] + 1 ELSE runs_of[p]]

\* run leaves with an exception: nothing is cleared.
RunRaise(exception, what, circs, ok, inv) ==
    /\ ret' = Raise(caller, exception, what)
    /\ circuits' = circs
    /\ pc' = "idle"
    /\ caller' = "none"
    /\ runIdx' = 0
    /\ wfj' = NoFrame
    /\ invoked' = inv
    /\ clean' = ok
    /\ runs_of' = RunsAfter(ok, inv)
    /\ UNCHANGED to_execute

\* "Clear the list of compiled programs to execute" and return d.
RunReturn(d, circs, ok, inv) ==
    /\ to_execute' = <<>>
    /\ ret' = Return(caller, d)
    /\ circuits' = circs
    /\ pc' = "idle"
    /\ caller' = "none"
    /\ runIdx' = 0
    /\ wfj' = NoFrame
    /\ invoked' = inv
    /\ clean' = ok
    /\ runs_of' = RunsAfter(ok, inv)

\* The i-th backend of "for backend in self.__to_execute": the keys of the
\* dict in insertion order.  (The first definition is a variant that goes
\* through the keys from the last one; C18 does not hold of it.)
loop_backend_reversed(q, i) == q[Len(q) + 1 - i].device

loop_backend(q, i) == q[i].device

\* The test of the assert: as many results as jobs.  (The first definition is
\* a variant that accepts results in excess; C15 does not hold of it.)
results_match_or_exceed(jobs, qasms) == Len(jobs) <= Len(qasms)

results_match(jobs, qasms) == Len(jobs) = Len(qasms)

\* run from the assert on, for the backend of this iteration; ok: the
\* collaborator answered without an error.
run_results(job_result, ok, inv) ==
    LET backend == to_execute[runIdx].device
        jobs == to_execute[runIdx].jobs
    IN  /\ last_job_result' = JobResult(backend, job_result)
        /\ IF ~job_result.has_qasms THEN RunRaise("KeyError", "qasms", circuits, FALSE, inv)
           ELSE IF ~results_match(jobs, job_result.qasms)
           THEN RunRaise("AssertionError", "Internal error in QuantumProgram.run(), job_result",
                         circuits, FALSE, inv)
           ELSE LET f == fill_loop(circuits, backend, jobs, job_result.qasms, 1)
                IN  CASE f.outcome = "KeyError" ->
                             RunRaise("KeyError", "execution", f.circuits, clean /\ ok, inv)
                      [] f.outcome = "not found" ->
                             RunReturn(ErrorDict("Internal error, circuit not found"),
                                       f.circuits, FALSE, inv)
                      [] OTHER ->
                             /\ circuits' = f.circuits
                             /\ runIdx' = runIdx + 1
                             /\ pc' = "run_loop"
                             /\ wfj' = [NoFrame EXCEPT !.wait = wfj.wait,
                                                       !.timeout = wfj.timeout]
                             /\ invoked' = inv
                             /\ clean' = (clean /\ ok)
                             /\ UNCHANGED <<to_execute, ret, caller, runs_of>>

\* run after wait_for_job has returned job_result.
run_after_poll(job_result, inv) ==
    IF job_result.status = "Error"
    THEN /\ last_job_result' = JobResult(to_execute[runIdx].device, job_result)
         /\ RunReturn(job_result, circuits, FALSE, inv)
    ELSE run_results(job_result, job_result.status = "COMPLETED", inv)

\* ----------------------------------------------------------- wait_for_job
\* wait_for_job returns result; frame is its frame at that moment.
WfjReturn(result, frame, inv) ==
    IF caller = "wait_for_job"
    THEN /\ ret' = Return("wait_for_job", result)
         /\ pc' = "idle"
         /\ caller' = "none"
         /\ wfj' = frame
         /\ UNCHANGED <<circuits, to_execute, runIdx, invoked, clean, last_job_result, runs_of>>
    ELSE run_after_poll(result, inv)

\* The frame after the first get_job.
first_query(wait, timeout, payload) ==
    [wait |-> wait, timeout |-> timeout, timer |-> 0, job |-> payload, sleeps |-> 0,
     queries |-> 1, running |-> IF payload.status = "RUNNING" THEN 1 ELSE 0]

\* The test of the timer against the timeout, at the top of the loop body.
\* (The first definition is a variant that gives up one sleep early; C10 does
\* not hold of it.)
timed_out_one_sleep_early(frame) == frame.timer + frame.wait >= frame.timeout

timed_out(frame) == frame.timer = frame.timeout

Saturate(n) == IF n > TimerCap THEN MaxTimeout + 1 ELSE n

\* time.sleep(wait); timer += wait; job = get_job(jobid)
wfj_sleep(frame, payload) ==
    [frame EXCEPT !.timer = Saturate(@ + frame.wait), !.sleeps = Saturate(@ + 1),
                  !.queries = Saturate(@ + 1), !.job = payload,
                  !.running = IF payload.status = "RUNNING" THEN Saturate(@ + 1) ELSE @]

\* The status test that ends the loop body.
error_status(status) == status = "ERROR_CREATING_JOB" \/ status = "ERROR_RUNNING_JOB"

\* One pass of the while loop body, and the while test that follows it.
wait_loop ==
    /\ pc = "wait_loop"
    /\ IF timed_out(wfj) THEN WfjReturn(ErrorDict("Time Out"), wfj, invoked)
       ELSE \E payload \in Payloads :
                LET frame == wfj_sleep(wfj, payload)
                IN  IF error_status(payload.status)
                    THEN WfjReturn(ErrorDict(payload.status), frame, invoked)
                    ELSE IF payload.status = "RUNNING"
                    THEN /\ wfj' = frame
                         /\ UNCHANGED <<circuits, to_execute, runIdx, ret, caller, pc,
                                        invoked, clean, last_job_result, runs_of>>
                    ELSE WfjReturn(payload, frame, invoked)
    /\ UNCHANGED <<last_device_backend, before, calc>>

\* wait_for_job(jobid, wait, timeout), called directly: up to the while test.
wait_for_job(wait, timeout) ==
    /\ pc = "idle"
    /\ before' = <<>>
    /\ invoked' = {}
    /\ clean' = TRUE
    /\ last_job_result' = NoJobResult
    /\ UNCHANGED <<circuits, to_execute, last_device_backend, runIdx, runs_of, calc>>
    /\ \E payload \in Payloads :
           /\ wfj' = first_query(wait, timeout, payload)
           /\ IF payload.status = "RUNNING"
              THEN /\ pc' = "wait_loop"
                   /\ caller' = "wait_for_job"
                   /\ ret' = NoRet
              ELSE /\ ret' = Return("wait_for_job", payload)
                   /\ UNCHANGED <<pc, caller>>

\* ------------------------------------------------------- run, step by step
\* The remote path of one iteration of run's for loop.
run_online(backend, jobs) ==
    LET check == batch_check(jobs)
        inv == invoked \cup {backend}
    IN  IF check.error # "None"
        THEN /\ RunReturn(ErrorDict(check.error), circuits, FALSE, invoked)
             /\ UNCHANGED last_job_result
        ELSE \E output \in {"error", "id"} :
                 IF output = "error"
                 THEN /\ RunReturn(ErrorDict("run_job error"), circuits, FALSE, inv)
                      /\ UNCHANGED last_job_result
                 ELSE \E payload \in Payloads :
                          IF payload.status = "RUNNING"
                          THEN /\ pc' = "wait_loop"
                               /\ wfj' = first_query(wfj.wait, wfj.timeout, payload)
                               /\ invoked' = inv
                               /\ UNCHANGED <<circuits, to_execute, runIdx, ret, caller,
                                              clean, last_job_result, runs_of>>
                          ELSE run_after_poll(payload, inv)

\* The engine that the local path picks for backend, "None" when it picks
\* none.  (The first definition is a variant that hands every other name to
\* the unitary engine; C19 does not hold of it.)
local_engine_by_default(backend) ==
    IF backend = "local_qasm_simulator" THEN "run_local_qasm_simulator"
    ELSE "run_local_unitary_simulator"

local_engine(backend) ==
    IF backend = "local_qasm_simulator" THEN "run_local_qasm_simulator"
    ELSE IF backend = "local_unitary_simulator" THEN "run_local_unitary_simulator"
    ELSE "None"

\* What the engine returns for jobs when its simulator behaves as sims.
engine_result(engine, jobs, sims) ==
    IF engine = "run_local_qasm_simulator" THEN run_local_qasm_simulator(jobs, sims)
    ELSE run_local_unitary_simulator(jobs, sims)

\* What run hands to the remote API for a queued job: {'qasm': job["qasm_compiled"]}
online_job(job) == [qasm |-> job.qasm_compiled]

online_jobs(jobs) == [i \in 1..Len(jobs) |-> online_job(jobs[i])]

\* What run hands to a local engine for a queued job:
\* {"compiled_circuit": job["compiled_circuit"], "shots": job["shots"]}
\* (The first definition is a variant that hands the seed on as well; C28
\* does not hold of it.)
local_job_with_seed(job) ==
    [compiled_circuit |-> job.compiled_circuit, shots |-> job.shots, seed |-> job.seed]

local_job(job) == [compiled_circuit |-> job.compiled_circuit, shots |-> job.shots]

local_jobs(jobs) == [i \in 1..Len(jobs) |-> local_job(jobs[i])]

\* The local path of one iteration of run's for loop.
run_local(backend, queued) ==
    LET inv == invoked \cup {backend}
        engine == local_engine(backend)
        jobs == local_jobs(queued)
    IN  IF engine # "None"
        THEN \E sims \in SimOutcomes(jobs) :
                 LET r == engine_result(engine, jobs, sims)
                 IN  IF r.raised
                     THEN /\ RunRaise("SimulatorError", backend, circuits, FALSE, inv)
                          /\ UNCHANGED last_job_result
                     ELSE run_results(Dict("None", "None", TRUE, r.qasms), TRUE, inv)
        ELSE /\ RunReturn(ErrorDict("Not a local simulator"), circuits, FALSE, invoked)
             /\ UNCHANGED last_job_result

\* run(wait, timeout): the call, up to the head of the for loop.
run(wait, timeout) ==
    /\ pc = "idle"
    /\ pc' = "run_loop"
    /\ caller' = "run"
    /\ runIdx' = 1
    /\ wfj' = [NoFrame EXCEPT !.wait = wait, !.timeout = timeout]
    /\ ret' = NoRet
    /\ before' = to_execute
    /\ invoked' = {}
    /\ clean' = TRUE
    /\ last_job_result' = NoJobResult
    /\ UNCHANGED <<circuits, to_execute, last_device_backend, runs_of, calc>>

\* One iteration of "for backend in self.__to_execute", up to the next loop
\* head, to the while loop of wait_for_job, or out of run; past the last
\* key, the final clear and return.
run_backend ==
    /\ pc = "run_loop"
    /\ UNCHANGED <<before, calc>>
    /\ IF runIdx > Len(to_execute)
       THEN /\ RunReturn(CompletedDict, circuits, clean, invoked)
            /\ UNCHANGED <<last_device_backend, last_job_result>>
       ELSE LET backend == loop_backend(to_execute, runIdx)
                jobs == to_execute[runIdx].jobs
            IN  /\ last_device_backend' = backend
                /\ IF backend \in online_devices THEN run_online(backend, jobs)
                   ELSE run_local(backend, jobs)

\* execute(...): compile, its result dropped, then run.
\* (The first definition is a variant that returns the Error of compile
\* instead of running; C25 does not hold of it.)
execute_checking_compile(names, device, shots, max_credits, wait, timeout, basis_gates, coupling_map, seed) ==
    /\ pc = "idle"
    /\ QueueSize(to_execute) + Len(names) <= MaxQueue
    /\ LET r == compile_result(to_execute, names, device, shots, max_credits,
                                basis_gates, coupling_map, seed)
       IN  /\ to_execute' = r.to_execute
           /\ before' = r.to_execute
           /\ IF r.ret.status = "Error"
              THEN /\ ret' = Return("execute", r.ret)
                   /\ UNCHANGED <<pc, caller, runIdx, wfj>>
              ELSE /\ pc' = "run_loop"
                   /\ caller' = "execute"
                   /\ runIdx' = 1
                   /\ wfj' = [NoFrame EXCEPT !.wait = wait, !.timeout = timeout]
                   /\ ret' = NoRet
    /\ invoked' = {}
    /\ clean' = TRUE
    /\ last_job_result' = NoJobResult
    /\ UNCHANGED <<circuits, last_device_backend, runs_of, calc>>

execute(names, device, shots, max_credits, wait, timeout, basis_gates, coupling_map, seed) ==
    /\ pc = "idle"
    /\ QueueSize(to_execute) + Len(names) <= MaxQueue
    /\ LET r == compile_result(to_execute, names, device, shots, max_credits,
                                basis_gates, coupling_map, seed)
       IN  /\ to_execute' = r.to_execute
           /\ before' = r.to_execute
    /\ pc' = "run_loop"
    /\ caller' = "execute"
    /\ runIdx' = 1
    /\ wfj' = [NoFrame EXCEPT !.wait = wait, !.timeout = timeout]
    /\ ret' = NoRet
    /\ invoked' = {}
    /\ clean' = TRUE
    /\ last_job_result' = NoJobResult
    /\ UNCHANGED <<circuits, last_device_backend, runs_of, calc>>

\* ------------------------------------------------------------------- specs
\* Every step of the object, its callers drawing names from lists and
\* compile targets from targets.
NextOver(names_in, lists, targets) ==
    \/ \E name \in names_in, circuit_object \in CircuitObjects :
           add_circuit(name, circuit_object)
    \/ \E names \in lists, t \in targets,
          basis_gates \in BasisInputs, coupling_map \in CouplingInputs, seed \in SeedInputs :
           compile(names, t[1], t[2], t[3], basis_gates, coupling_map, seed)
    \/ \E names \in lists, t \in targets,
          wait \in 1..MaxRunWait, timeout \in 0..MaxRunTimeout,
          basis_gates \in BasisInputs, coupling_map \in CouplingInputs, seed \in SeedInputs :
           execute(names, t[1], t[2], t[3], wait, timeout, basis_gates, coupling_map, seed)
    \/ \E wait \in 1..MaxRunWait, timeout \in 0..MaxRunTimeout : run(wait, timeout)
    \/ run_backend
    \/ wait_loop

Next == NextOver(Names, NameLists, CompileTargets)

Spec == Init /\ [][Next]_vars

\* wait_for_job alone, called directly on a fresh object.
PollNext ==
    \/ \E wait \in 1..MaxWait, timeout \in 0..MaxTimeout : wait_for_job(wait, timeout)
    \/ wait_loop

PollSpec == Init /\ [][PollNext]_vars

\* The loop of wait_for_job keeps running: time.sleep returns and get_job answers.
PollFairSpec == PollSpec /\ WF_vars(wait_loop)

\* One circuit compiled and run again and again, its runs counted.
RerunPairs == {<<"c1", "local_qasm_simulator">>, <<"c1", "ibmqx2">>}

RerunTargets == {<<"local_qasm_simulator", 1, 3>>, <<"local_qasm_simulator", 2, 3>>, <<"ibmqx2", 1, 3>>}

RerunNext == NextOver({"c1"}, {<<"c1">>}, RerunTargets)

RerunSpec == InitTracking(RerunPairs) /\ [][RerunNext]_vars

\* ---------------------------------------------- the other registrations
\* The object of a QuantumCircuit() made by create_circuit, and of a parsed file.
FreshCircuit == "QuantumCircuit()"

ParsedCircuit == "parsed"

\* create_circuit(name, qregisters, cregisters, circuit_object).  The entry
\* is assigned first; known: every register given by name is one of the
\* program's registers, KeyError otherwise.
create_circuit(name, circuit_object, known) ==
    /\ pc = "idle"
    /\ LET object == IF circuit_object = "None" THEN FreshCircuit ELSE circuit_object
       IN  /\ circuits' = [circuits EXCEPT ![name] = NewCircuit(object)]
           /\ ret' = IF known THEN Return("create_circuit", Dict("object", object, FALSE, <<>>))
                     ELSE Raise("create_circuit", "KeyError", "register")
    /\ before' = <<>>
    /\ invoked' = {}
    /\ clean' = TRUE
    /\ last_job_result' = NoJobResult
    /\ UNCHANGED <<to_execute, last_device_backend, pc, caller, runIdx, wfj, runs_of, calc>>

\* load_qasm(name, qasm_file, basis_gates); parses: the parser returns, it
\* raises otherwise.  A file is named after the circuit it holds.
load_qasm(name, qasm_file, parses) ==
    /\ pc = "idle"
    /\ IF qasm_file = "None"
       THEN /\ ret' = Return("load_qasm", ErrorDict("Not filename provided"))
            /\ UNCHANGED circuits
       ELSE IF ~parses
       THEN /\ ret' = Raise("load_qasm", "QasmException", qasm_file)
            /\ UNCHANGED circuits
       ELSE LET key == IF name = "" THEN qasm_file ELSE name
            IN  /\ circuits' = [circuits EXCEPT ![key] = NewCircuit(ParsedCircuit)]
                /\ ret' = Return("load_qasm", CompletedDict)
    /\ before' = <<>>
    /\ invoked' = {}
    /\ clean' = TRUE
    /\ last_job_result' = NoJobResult
    /\ UNCHANGED <<to_execute, last_device_backend, pc, caller, runIdx, wfj, runs_of, calc>>

\* The catalog under every way to register a circuit, with compile and run.
CatalogLists == {<<"c1">>, <<"c1", "c2">>}

CatalogTargets == {<<"local_qasm_simulator", 2, 3>>, <<"ibmqx2", 1, 3>>}

CatalogNext ==
    \/ NextOver(Names, CatalogLists, CatalogTargets)
    \/ \E name \in Names, circuit_object \in CircuitObjects \cup {"None"}, known \in BOOLEAN :
           create_circuit(name, circuit_object, known)
    \/ \E name \in Names \cup {""}, qasm_file \in Names \cup {"None"}, parses \in BOOLEAN :
           load_qasm(name, qasm_file, parses)

CatalogSpec == Init /\ [][CatalogNext]_vars

\* -------------------------------------------------------------- accessors
AccessValue(v) == [kind |-> "return", error |-> FALSE, value |-> v]

AccessError(message) == [kind |-> "return", error |-> TRUE, value |-> message]

AccessRaise(exception) == [kind |-> "raise", error |-> FALSE, value |-> exception]

\* "if not device: device = self.__last_device_backend"
default_device(device) == IF device = "None" THEN last_device_backend ELSE device

\* self.__quantum_program["circuits"][name]['execution'][device]: the record,
\* or the KeyError of the first key that is missing.
execution_lookup(name, device) ==
    IF ~circuits[name].present \/ ~circuits[name].has_execution
       \/ device \notin Devices
    THEN [raised |-> TRUE, record |-> NoRecord]
    ELSE IF ~circuits[name].execution[device].present
    THEN [raised |-> TRUE, record |-> NoRecord]
    ELSE [raised |-> FALSE, record |-> circuits[name].execution[device]]

get_result(name, device) ==
    LET found == execution_lookup(name, default_device(device))
    IN  IF circuits[name].present
        THEN IF found.raised THEN AccessRaise("KeyError") ELSE AccessValue(found.record.result)
        ELSE AccessError("Circuit not found")

get_data(name, device) ==
    LET found == execution_lookup(name, default_device(device))
    IN  IF found.raised THEN AccessRaise("KeyError") ELSE AccessValue(found.record.result)

\* The results that hold a "counts" table.
has_counts(result) == result.kind \in {"counts", "remote"}

get_counts(name, device) ==
    LET found == execution_lookup(name, default_device(device))
    IN  IF found.raised \/ ~has_counts(found.record.result)
        THEN AccessError("Error in circuit name")
        ELSE AccessValue(found.record.result)

get_compiled_qasm(name, device) ==
    LET found == execution_lookup(name, default_device(device))
    IN  IF found.raised THEN AccessError("No compiled qasm for this circuit")
        ELSE AccessValue(found.record.qasm_compiled)

DeviceArguments == Devices \cup {"None"}

\* ----------------------------------------------------------- average_data
MaxCount == 2        \* largest count of one key in a counts table

\* The keys a table can hold, in the order a dict iterates over them.
CountKeys == <<"00", "01", "11">>

KeySet == {CountKeys[i] : i \in 1..Len(CountKeys)}

\* The dicts from some of the keys to values.
Tables(values) == UNION {[S -> values] : S \in SUBSET KeySet}

CountsInputs == Tables(1..MaxCount)

ObservableValues == {-1, 2}

ObservableInputs == Tables(ObservableValues)

\* Exact rational numbers: n / d with d > 0, and their sum.
Frac(n, d) == [num |-> n, den |-> d]

FracAdd(x, y) == Frac(x.num * y.den + y.num * x.den, x.den * y.den)

\* tot = sum(counts.values()), from the i-th key on
RECURSIVE sum_values(_, _)
sum_values(counts, i) ==
    IF i > Len(CountKeys) THEN 0
    ELSE (IF CountKeys[i] \in DOMAIN counts THEN counts[CountKeys[i]] ELSE 0)
         + sum_values(counts, i + 1)

\* What one key of counts adds to temp:
\* "if key in observable: temp += counts[key] * observable[key] / tot".
\* (The first definition is a variant that weighs a key the observable does
\* not hold by 1; C21 does not hold of it.)
average_term_counting_unobserved(counts, observable, key, tot) ==
    IF key \in DOMAIN observable THEN Frac(counts[key] * observable[key], tot)
    ELSE Frac(counts[key], tot)

average_term(counts, observable, key, tot) ==
    IF key \in DOMAIN observable THEN Frac(counts[key] * observable[key], tot)
    ELSE Frac(0, 1)

\* "for key in counts", from the i-th key on.
RECURSIVE average_loop(_, _, _, _, _)
average_loop(counts, observable, tot, i, temp) ==
    IF i > Len(CountKeys) THEN temp
    ELSE LET key == CountKeys[i]
         IN  average_loop(counts, observable, tot, i + 1,
                 IF key \in DOMAIN counts
                 THEN FracAdd(temp, average_term(counts, observable, key, tot))
                 ELSE temp)

\* average_data(name, observable), counts being what get_counts(name) returned.
average_data(counts, observable) ==
    average_loop(counts, observable, sum_values(counts, 1), 1, Frac(0, 1))

\* A call of average_data on a counts table.
average_data_call(counts, observable) ==
    /\ pc = "idle"
    /\ calc' = [op |-> "average_data", counts |-> counts, observable |-> observable,
                out |-> average_data(counts, observable)]
    /\ UNCHANGED <<circuits, to_execute, last_device_backend, pc, caller, runIdx, wfj, ret,
                   before, invoked, clean, last_job_result, runs_of>>

AverageNext ==
    \E counts \in CountsInputs, observable \in ObservableInputs :
        average_data_call(counts, observable)

AverageSpec == Init /\ [][AverageNext]_vars

\* ------------------------------------------- HamiltonianPhaseEstimation
MaxTerms == 3        \* terms of an operator handed to estimate

Coefficients == {-1, 2}

\* A term of a sum: pauli says that its primitive is a Pauli, and xz is then
\* "p.x.any() or p.z.any()": the Pauli is not the identity.
PauliTerms == [pauli : {TRUE}, xz : BOOLEAN, coeff : Coefficients]

MatrixTerms == [pauli : {FALSE}, xz : {FALSE}, coeff : {2}]

Operator(kind, terms) == [kind |-> kind, terms |-> terms]

\* The Pauli sums: a PauliSumOp, or a SummedOp of PauliOps.
PauliSums ==
    {Operator(kind, terms) :
        kind \in {"PauliSumOp", "SummedOp"}, terms \in SeqsUpTo(PauliTerms, MaxTerms)}

\* The operators a caller hands to estimate: the Pauli sums, the SummedOps
\* with terms that are no Paulis, and a MatrixOp, which is no sum at all.
Hamiltonians ==
    PauliSums
    \cup {Operator("SummedOp", terms) : terms \in SeqsUpTo(PauliTerms \cup MatrixTerms, MaxTerms)}
    \cup {Operator("MatrixOp", <<>>)}

BoundInputs == {"None", "1"}

\* hamiltonian.to_pauli_op()
to_pauli_op(hamiltonian) == Operator("SummedOp", hamiltonian.terms)

\* "for op in pauli_sum", from the i-th term on.  Reading x and z of a
\* primitive that is no Pauli raises AttributeError.
RECURSIVE remove_identity_loop(_, _, _, _)
remove_identity_loop(terms, i, idcoeff, ops) ==
    IF i > Len(terms) THEN [raised |-> "None", idcoeff |-> idcoeff, ops |-> ops]
    ELSE IF ~terms[i].pauli THEN [raised |-> "AttributeError", idcoeff |-> idcoeff, ops |-> ops]
    ELSE IF terms[i].xz
    THEN remove_identity_loop(terms, i + 1, idcoeff, Append(ops, terms[i]))
    ELSE remove_identity_loop(terms, i + 1, idcoeff + terms[i].coeff, ops)

\* _remove_identity(pauli_sum): [raised, idcoeff, ops], ops the terms of the
\* SummedOp it returns.  An operator that is no list of terms cannot be
\* iterated over: TypeError.  (The first definition is a variant that leaves
\* the identity terms in the operator; C30 does not hold of it.)
remove_identity_keeping_identity(pauli_sum) ==
    [remove_identity_loop(pauli_sum.terms, 1, 0, <<>>) EXCEPT !.ops = pauli_sum.terms]

remove_identity(pauli_sum) ==
    IF pauli_sum.kind # "SummedOp" THEN [raised |-> "TypeError", idcoeff |-> 0, ops |-> <<>>]
    ELSE remove_identity_loop(pauli_sum.terms, 1, 0, <<>>)

\* PhaseEstimationScale.from_pauli_sum(hamiltonian): the scale of a Pauli
\* sum, named by the sum; ValueError when the operator is not a Pauli sum.
from_pauli_sum(hamiltonian) ==
    IF hamiltonian.kind = "SummedOp"
       /\ \A i \in 1..Len(hamiltonian.terms) : hamiltonian.terms[i].pauli
    THEN [raised |-> "None", scale |-> <<"from_pauli_sum", hamiltonian.terms>>]
    ELSE [raised |-> "ValueError", scale |-> <<>>]

\* _get_scale(hamiltonian, bound)
get_scale(hamiltonian, bound) ==
    IF bound = "None" THEN from_pauli_sum(hamiltonian)
    ELSE [raised |-> "None", scale |-> <<"PhaseEstimationScale", bound>>]

\* _get_unitary(hamiltonian, pe_scale, evolution): the circuit of
\* exp(i * (-pe_scale.scale * hamiltonian)), named by what it is built from.
get_unitary(hamiltonian, pe_scale, evolution) ==
    [scaled_hamiltonian |-> <<pe_scale, hamiltonian.terms>>, evolution |-> evolution]

EstimateRaise(exception) ==
    [raised |-> exception, id_coefficient |-> 0, phase_estimation_scale |-> <<>>,
     unitary |-> <<>>]

\* estimate(hamiltonian, state_preparation=None, evolution=None, bound):
\* the exception that leaves it, or the id_coefficient and scale of the
\* result with the unitary handed to the phase estimator.
estimate(hamiltonian, bound) ==
    LET summed == IF hamiltonian.kind = "PauliSumOp" THEN to_pauli_op(hamiltonian)
                  ELSE hamiltonian
        removed == remove_identity(summed)
        hamiltonian_no_id == Operator("SummedOp", removed.ops)
        pe_scale == get_scale(hamiltonian_no_id, bound)
    IN  IF removed.raised # "None" THEN EstimateRaise(removed.raised)
        ELSE IF pe_scale.raised # "None" THEN EstimateRaise(pe_scale.raised)
        ELSE [raised |-> "None", id_coefficient |-> removed.idcoeff,
              phase_estimation_scale |-> pe_scale.scale,
              unitary |-> get_unitary(hamiltonian_no_id, pe_scale.scale,
                                      "PauliTrotterEvolution")]

\* A call of _remove_identity on a Pauli sum.
remove_identity_call(pauli_sum) ==
    /\ pc = "idle"
    /\ calc' = [op |-> "remove_identity", pauli_sum |-> pauli_sum,
                out |-> remove_identity(pauli_sum)]
    /\ UNCHANGED <<circuits, to_execute, last_device_backend, pc, caller, runIdx, wfj, ret,
                   before, invoked, clean, last_job_result, runs_of>>

\* A call of estimate.
estimate_call(hamiltonian, bound) ==
    /\ pc = "idle"
    /\ calc' = [op |-> "estimate", hamiltonian |-> hamiltonian, bound |-> bound,
                out |-> estimate(hamiltonian, bound)]
    /\ UNCHANGED <<circuits, to_execute, last_device_backend, pc, caller, runIdx, wfj, ret,
                   before, invoked, clean, last_job_result, runs_of>>

HamiltonianNext ==
    \/ \E pauli_sum \in {h \in PauliSums : h.kind = "SummedOp"} : remove_identity_call(pauli_sum)
    \/ \E hamiltonian \in Hamiltonians, bound \in BoundInputs : estimate_call(hamiltonian, bound)

HamiltonianSpec == Init /\ [][HamiltonianNext]_vars

\* ----------------------------------------------------------------- claims
RunOps == {"run", "execute"}

\* The last public call was run (or execute) and it has ended.
RunEnded == pc = "idle" /\ ret.op \in RunOps

\* The last public call was a direct wait_for_job and it has ended.
WfjEnded == pc = "idle" /\ ret.op = "wait_for_job"

\* The record of (name, device) holds the compiled fields of job.
RecordHolds(name, device, job) ==
    /\ circuits[name].present
    /\ circuits[name].has_execution
    /\ circuits[name].execution[device].present
    /\ \A field \in {"qasm_compiled", "coupling_map", "basis_gates", "compiled_circuit",
                      "shots", "max_credits"} :
           circuits[name].execution[device][field] = job[field]

\* The last job of the queue q named name on device.
LastJobOf(q, name, device) ==
    LET at == JobsOf(q, name, device)
    IN  QueueJobs(q, device)[CHOOSE i \in at : \A j \in at : j <= i]

\* The jobs of a batch do not all have the same shots and the same max_credits.
Heterogeneous(jobs) ==
    \E i, j \in 1..Len(jobs) :
        jobs[i].shots # jobs[j].shots \/ jobs[i].max_credits # jobs[j].max_credits

\* C1: whenever a call of run (or execute) has ended, by a return or by an
\* exception, the execution queue is empty.
C1_QueueEmptyAfterRun == RunEnded => to_execute = <<>>

\* C2: a compile call that fails on a name absent from the catalog leaves the
\* execution queue exactly as it was before the call.
C2_FailedCompileAtomic ==
    [][(pc = "idle" /\ ret'.op = "compile" /\ ret'.result = "not in QuantumProgram")
          => to_execute' = to_execute]_vars

\* C3: a run in which no batch, device name or collaborator was in error
\* returns COMPLETED, leaves the queue empty, and leaves for every job that
\* was queued a record under (circuit, device) with the compiled fields of
\* the last job queued for that pair.
C3_CleanRunCompletes ==
    (RunEnded /\ clean) =>
        /\ ret.kind = "return"
        /\ ret.status = "COMPLETED"
        /\ to_execute = <<>>
        /\ \A i \in 1..Len(before) : \A j \in 1..Len(before[i].jobs) :
               LET name == before[i].jobs[j].name
                   device == before[i].device
               IN  RecordHolds(name, device, LastJobOf(before, name, device))

\* C4: a wait_for_job that is in its loop eventually returns, and when every
\* status query answered RUNNING it returns the Time Out error.
C4_AllRunningTimesOut ==
    (pc = "wait_loop") ~>
        (WfjEnded /\ (wfj.job.status = "RUNNING" =>
                          (ret.status = "Error" /\ ret.result = "Time Out")))

\* C5: when wait_for_job has returned and its last status query answered
\* ERROR_CREATING_JOB or ERROR_RUNNING_JOB, it returned an Error dict whose
\* result is that status.
C5_ErrorStatusIsError ==
    (WfjEnded /\ error_status(wfj.job.status)) =>
        (ret.kind = "return" /\ ret.status = "Error" /\ ret.result = wfj.job.status)

TaxonomyError ==
    \/ ret.result \in {"No circuits", "not in QuantumProgram",
                        "Online devices only support job batches with equal numbers of shots",
                        "Online devices only support job batches with equal max credits",
                        "run_job error", "Time Out", "ERROR_CREATING_JOB", "ERROR_RUNNING_JOB",
                        "Not a local simulator"}
    \/ ret.status = "AssertionError"

\* C7: compile, run, execute and wait_for_job report every error of the
\* taxonomy as a returned dict of status Error, never as an exception.
C7_ErrorsAreReturned ==
    (pc = "idle" /\ ret.op \in {"compile", "run", "execute", "wait_for_job"} /\ TaxonomyError)
        => (ret.kind = "return" /\ ret.status = "Error")

\* The lookup of (name, device) finds no record.
LookupMiss(name, device) == execution_lookup(name, default_device(device)).raised

\* C8: every accessor returns an error value, and does not raise, for a
\* circuit name absent from the catalog or a device with no record.
C8_AccessorsReturnErrors ==
    \A name \in Names, device \in DeviceArguments :
        LookupMiss(name, device) =>
            /\ get_compiled_qasm(name, device).kind = "return"
            /\ get_compiled_qasm(name, device).error
            /\ get_result(name, device).kind = "return"
            /\ get_result(name, device).error
            /\ get_data(name, device).kind = "return"
            /\ get_data(name, device).error
            /\ get_counts(name, device).kind = "return"
            /\ get_counts(name, device).error

\* C9: after a second clean run that dispatched circuit c on device d, the
\* record of (c, d) exists and holds the compiled fields of the job of the
\* second run.
C9_RerunOverwrites ==
    (RunEnded /\ clean) =>
        \A p \in DOMAIN runs_of :
            (runs_of[p] >= 2 /\ p[2] \in invoked /\ JobsOf(before, p[1], p[2]) # {})
                => RecordHolds(p[1], p[2], LastJobOf(before, p[1], p[2]))

\* C10: with n the number of RUNNING answers, a wait_for_job that ended on a
\* status that is neither RUNNING nor an error, n*wait <= timeout, slept n
\* times, queried n+1 times and returned the last payload unchanged; and it
\* never ends on Time Out while n*wait <= timeout, so that no such status
\* sequence is cut short.
C10_PollCounts ==
    WfjEnded =>
        /\ (wfj.job.status # "RUNNING" /\ ~error_status(wfj.job.status)
              /\ wfj.running * wfj.wait <= wfj.timeout)
               => (wfj.sleeps = wfj.running /\ wfj.queries = wfj.running + 1
                     /\ ret = Return("wait_for_job", wfj.job))
        /\ ret.result = "Time Out" => wfj.running * wfj.wait > wfj.timeout

\* C10 witness: RUNNING, RUNNING, COMPLETED with wait 1 and timeout 3: two
\* sleeps, three queries, the COMPLETED payload returned.
C10_Witness ==
    /\ WfjEnded
    /\ wfj.wait = 1
    /\ wfj.timeout = 3
    /\ wfj.running = 2
    /\ wfj.sleeps = 2
    /\ wfj.queries = 3
    /\ ret.status = "COMPLETED"

\* C11: in every state of wait_for_job the elapsed-time counter is at most
\* the timeout.
C11_ElapsedWithinTimeout == wfj.timer <= wfj.timeout

\* C12: for every batch queued on a local engine and whatever its simulator
\* does on each job, the engine returns one entry per job; the entry of a
\* job on which the simulator failed has status FAIL and a null result, the
\* entries of the other jobs are COMPLETED.
C12_EngineIsolatesFailures ==
    \A i \in 1..Len(to_execute) :
        LET engine == local_engine(to_execute[i].device)
            jobs == to_execute[i].jobs
        IN  engine # "None" =>
                \A sims \in SimOutcomes(jobs) :
                    LET r == engine_result(engine, jobs, sims)
                    IN  /\ ~r.raised
                        /\ Len(r.qasms) = Len(jobs)
                        /\ \A j \in 1..Len(jobs) :
                               IF sims[j].raises
                               THEN r.qasms[j].status = "FAIL" /\ r.qasms[j].result = NoResult
                               ELSE r.qasms[j].status = "COMPLETED"

\* The catalog holds a record of (name, device).
RecordPresent(name, device) ==
    circuits[name].has_execution /\ circuits[name].execution[device].present

\* No job that the last run found queued on device has a record there.
NoRecordOn(device) ==
    \A j \in 1..Len(QueueJobs(before, device)) :
        ~RecordPresent(QueueJobs(before, device)[j].name, device)

\* C13: when run has ended otherwise than by COMPLETED, every device that
\* came after the one it ended on was not handed to a collaborator, has no
\* record written, and is no longer in the queue.
C13_FailureStopsLaterDevices ==
    (RunEnded /\ ret.status # "COMPLETED" /\ before # <<>>) =>
        \A i \in 1..Len(before) :
            i > QueueIndex(before, last_device_backend) =>
                /\ before[i].device \notin invoked
                /\ NoRecordOn(before[i].device)
                /\ before[i].device \notin QueueDevices(to_execute)

\* The poll of the device run ended on ended in a terminal error status, at
\* the first query (the payload itself came back) or at a later one, or in
\* Time Out.
PollFailed ==
    /\ last_job_result.backend = last_device_backend
    /\ \/ error_status(last_job_result.status)
       \/ /\ last_job_result.status = "Error"
          /\ last_job_result.result = "Time Out" \/ error_status(last_job_result.result)

\* C14: when run has ended and the poll of its remote job ended in a terminal
\* error status or in Time Out, run returned the Error dict of the poller,
\* wrote no record for that device, and the queue is empty.
C14_PollErrorEndsRun ==
    (RunEnded /\ PollFailed) =>
        /\ ret.kind = "return"
        /\ ret.status = "Error"
        /\ ret.result = IF last_job_result.status = "Error" THEN last_job_result.result
                        ELSE last_job_result.status
        /\ NoRecordOn(last_device_backend)
        /\ to_execute = <<>>

\* The job_result of the last run holds a number of results that is not the
\* number of jobs queued for its device.
ResultCountMismatch ==
    /\ last_job_result.has_qasms
    /\ last_job_result.count # Len(QueueJobs(before, last_job_result.backend))

\* C15: when run has ended and the results obtained last were not as many as
\* the jobs of their device, run ended at that device, on the assert on the
\* result count, and no record was written for that device.
C15_ResultCountMismatchAborts ==
    (RunEnded /\ ResultCountMismatch) =>
        /\ ret.kind = "raise"
        /\ ret.status = "AssertionError"
        /\ last_device_backend = last_job_result.backend
        /\ NoRecordOn(last_device_backend)

\* C15 witness: a remote job answered with one result more than the jobs
\* submitted, and run ended on the assert.
C15_Witness ==
    /\ RunEnded
    /\ last_job_result.has_qasms
    /\ last_job_result.backend \in online_devices
    /\ last_job_result.count = Len(QueueJobs(before, last_job_result.backend)) + 1
    /\ ret.status = "AssertionError"

\* q is q0 with jobs appended to the queue of device, and nothing else.
OnlyAppends(q0, q, device) ==
    /\ Len(q) >= Len(q0)
    /\ QueueDevices(q) \subseteq QueueDevices(q0) \cup {device}
    /\ \A i \in 1..Len(q0) :
           /\ q[i].device = q0[i].device
           /\ q0[i].device # device => q[i] = q0[i]
    /\ Len(QueueJobs(q, device)) >= Len(QueueJobs(q0, device))
    /\ SubSeq(QueueJobs(q, device), 1, Len(QueueJobs(q0, device))) = QueueJobs(q0, device)

\* C16: in every state, a compile call with any names and any device only
\* appends to the queue of that device; with no names it returns Error and
\* appends nothing; when it succeeds on k names it appends k jobs, named in
\* the order of the list.
C16_CompileOnlyAppends ==
    \A names \in NameLists, t \in CompileTargets, basis_gates \in BasisInputs,
       coupling_map \in CouplingInputs, seed \in SeedInputs :
        LET r == compile_result(to_execute, names, t[1], t[2], t[3],
                                basis_gates, coupling_map, seed)
            old == QueueJobs(to_execute, t[1])
            new == QueueJobs(r.to_execute, t[1])
        IN  /\ OnlyAppends(to_execute, r.to_execute, t[1])
            /\ names = <<>> => (r.ret.status = "Error" /\ r.to_execute = to_execute)
            /\ r.ret.status = "COMPLETED" =>
                   /\ Len(new) = Len(old) + Len(names)
                   /\ \A j \in 1..Len(names) : new[Len(old) + j].name = names[j]

\* C16 witness: a compile call succeeded, two devices are queued, and one of
\* them holds two jobs.
C16_Witness ==
    /\ pc = "idle"
    /\ ret.op = "compile"
    /\ ret.status = "COMPLETED"
    /\ Len(to_execute) >= 2
    /\ \E i \in 1..Len(to_execute) : Len(to_execute[i].jobs) >= 2

\* C17: every queued job holds a compiled_circuit when its device is one of
\* the two local simulators, and None when it is any other device.
C17_CompiledCircuitIffLocal ==
    \A i \in 1..Len(to_execute) : \A j \in 1..Len(to_execute[i].jobs) :
        (to_execute[i].jobs[j].compiled_circuit # NoneValue)
            <=> (to_execute[i].device \in local_devices)

\* C17 witness: the queue holds a job of a local simulator, a job of a hosted
\* device and a job of a device that is neither.
C17_Witness ==
    /\ \E i \in 1..Len(to_execute) :
           to_execute[i].device \in local_devices /\ to_execute[i].jobs # <<>>
    /\ \E i \in 1..Len(to_execute) :
           to_execute[i].device \in online_devices /\ to_execute[i].jobs # <<>>
    /\ \E i \in 1..Len(to_execute) :
           to_execute[i].device \notin online_devices \cup local_devices
             /\ to_execute[i].jobs # <<>>

\* C18: a step changes last_device_backend only when it is run's loop taking
\* up a backend, and every such step sets it to that backend, the keys of the
\* queue taken in insertion order; so no other call changes it, nor does a
\* run of an empty queue.
C18_LastDeviceSetByRunOnly ==
    [][/\ last_device_backend' # last_device_backend =>
             (pc = "run_loop" /\ runIdx \in 1..Len(to_execute))
       /\ (pc = "run_loop" /\ runIdx \in 1..Len(to_execute)) =>
             last_device_backend' = to_execute[runIdx].device]_vars

\* C18 witness: run has ended on the first of two queued devices, and
\* last_device_backend names it.
C18_Witness ==
    /\ RunEnded
    /\ Len(before) >= 2
    /\ last_device_backend = before[1].device

\* The device run ended on was queued and is neither hosted nor local.
UnknownDevice ==
    /\ last_device_backend \in QueueDevices(before)
    /\ last_device_backend \notin online_devices \cup local_devices

C20_CountsSumToShots ==
    \A i \in 1..Len(to_execute) :
        to_execute[i].device = "local_qasm_simulator" =>
            \A j \in 1..Len(to_execute[i].jobs) :
                LET job == to_execute[i].jobs[j]
                IN  \A sims \in SimOutcomes(<<job>>) :
                        ~sims[1].raises =>
                            LET one == run_local_qasm_simulator(<<job>>, sims).qasms[1]
                            IN  /\ one.status = "COMPLETED"
                                /\ one.result.kind = "counts"
                                /\ one.result.a + one.result.b = job.shots

\* The sum of f over the finite set S.
RECURSIVE SumOver(_, _)
SumOver(S, f) ==
    IF S = {} THEN 0
    ELSE LET x == CHOOSE y \in S : TRUE
         IN  f[x] + SumOver(S \ {x}, f)

\* C21: average_data returns the sum, over the keys that the counts table and
\* the observable both hold, of counts[k] * observable[k], divided by the sum
\* of all the counts (those of keys the observable does not hold included); a
\* key held by only one of the two adds nothing.  The numbers are exact
\* rationals: out = weighted / tot is stated as out.num * tot = weighted * out.den.
C21_AverageOverAllCounts ==
    calc.op = "average_data" =>
        LET counts == calc.counts
            observable == calc.observable
            common == DOMAIN counts \cap DOMAIN observable
            weighted == SumOver(common, [k \in common |-> counts[k] * observable[k]])
            tot == SumOver(DOMAIN counts, counts)
        IN  /\ calc.out.den > 0
            /\ calc.out.num * tot = weighted * calc.out.den
            /\ tot = 0 => calc.out.num = 0

\* A call with a key held by the counts only, a key held by the observable
\* only and a key held by both, whose average is not zero.
C21_Witness ==
    /\ calc.op = "average_data"
    /\ DOMAIN calc.counts \ DOMAIN calc.observable # {}
    /\ DOMAIN calc.observable \ DOMAIN calc.counts # {}
    /\ DOMAIN calc.counts \cap DOMAIN calc.observable # {}
    /\ calc.out.num # 0

\* The operator is a sum of Pauli operators.
IsPauliSum(hamiltonian) ==
    /\ hamiltonian.kind \in {"PauliSumOp", "SummedOp"}
    /\ \A i \in 1..Len(hamiltonian.terms) : hamiltonian.terms[i].pauli

\* C22: estimate raises ValueError when bound is None and the hamiltonian is
\* not a Pauli sum, and no other kind of error leaves it.
C22_OnlyValueError ==
    calc.op = "estimate" =>
        /\ calc.out.raised \in {"None", "ValueError"}
        /\ (calc.bound = "None" /\ ~IsPauliSum(calc.hamiltonian))
               => calc.out.raised = "ValueError"

\* The term is not the identity.
NonIdentity(term) == term.xz

\* The sum of the coefficients of the identity terms.
RECURSIVE IdentityCoefficient(_)
IdentityCoefficient(terms) ==
    IF terms = <<>> THEN 0
    ELSE (IF Head(terms).xz THEN 0 ELSE Head(terms).coeff) + IdentityCoefficient(Tail(terms))

\* The operator without its identity terms.
IdentityFree(hamiltonian) == Operator("SummedOp", SelectSeq(hamiltonian.terms, NonIdentity))

\* C30: _remove_identity splits the terms of a Pauli sum in two: the operator
\* it returns holds exactly the terms with a factor that is not the identity,
\* in their order and with their coefficients, and the coefficient it returns
\* is the sum of the coefficients of the identity terms (0 when there is
\* none).  estimate takes the scale and the unitary from the identity-free
\* operator alone and hands the identity coefficient to the result.
C30_IdentitySplit ==
    /\ calc.op = "remove_identity" =>
           /\ calc.out.raised = "None"
           /\ calc.out.ops = SelectSeq(calc.pauli_sum.terms, NonIdentity)
           /\ calc.out.idcoeff = IdentityCoefficient(calc.pauli_sum.terms)
    /\ (calc.op = "estimate" /\ calc.out.raised = "None") =>
           LET no_id == IdentityFree(calc.hamiltonian)
           IN  /\ calc.out.id_coefficient = IdentityCoefficient(calc.hamiltonian.terms)
               /\ calc.out.phase_estimation_scale = get_scale(no_id, calc.bound).scale
               /\ calc.out.unitary =
                      get_unitary(no_id, calc.out.phase_estimation_scale, "PauliTrotterEvolution")

\* estimate has returned for a sum with an identity term between two terms
\* that are not, of different coefficients, and no bound.
C30_Witness ==
    /\ calc.op = "estimate"
    /\ calc.bound = "None"
    /\ calc.out.raised = "None"
    /\ Len(calc.hamiltonian.terms) = 3
    /\ calc.hamiltonian.terms[1].xz
    /\ ~calc.hamiltonian.terms[2].xz
    /\ calc.hamiltonian.terms[3].xz
    /\ calc.hamiltonian.terms[1].coeff # calc.hamiltonian.terms[3].coeff
    /\ calc.out.id_coefficient # 0

C24_FirstRecordIsWritten ==
    RunEnded => ~(ret.kind = "raise" /\ ret.status = "KeyError" /\ ret.result = "execution")

\* The step is a call of execute.
ExecuteCalled == pc = "idle" /\ (caller' = "execute" \/ ret'.op = "execute")

\* C25: execute ignores what compile returns.  Every call of execute, the
\* ones whose compile returns Error included, enters run on whatever the
\* queue holds after the compile, and what run returns is what execute
\* returns: an execute whose compile failed on an empty queue (the only way
\* for its run to begin on an empty queue) returns COMPLETED.
C25_ExecuteRunsAfterFailedCompile ==
    [][ExecuteCalled =>
           /\ pc' = "run_loop"
           /\ caller' = "execute"
           /\ runIdx' = 1
           /\ before' = to_execute'
           /\ ret' = NoRet]_vars
    /\ []((RunEnded /\ ret.op = "execute" /\ before = <<>>) =>
              (ret.kind = "return" /\ ret.status = "COMPLETED" /\ ret.result = "all done"))

\* execute has returned COMPLETED and the queue it ran was empty: its compile
\* had failed.
C25_Witness ==
    /\ pc = "idle"
    /\ ret.op = "execute"
    /\ ret.kind = "return"
    /\ ret.status = "COMPLETED"
    /\ before = <<>>

\* The last run got past its first device, or the collaborator of the first
\* device answered with as many results as the device had jobs: the records
\* of the first device were due.
FirstDeviceAnswered ==
    \/ /\ last_device_backend # before[1].device
       /\ last_device_backend \in QueueDevices(before)
    \/ /\ last_job_result.backend = before[1].device
       /\ last_job_result.status # "Error"
       /\ last_job_result.has_qasms
       /\ last_job_result.count = Len(before[1].jobs)

\* C26: run does not roll back.  When a run over several devices has ended,
\* in whatever way, the records of a device it had processed before are
\* there: the first device, once its results were obtained, has a record for
\* each of its jobs, also when the run failed afterwards.
C26_EarlierRecordsKept ==
    (RunEnded /\ Len(before) >= 2 /\ FirstDeviceAnswered) =>
        \A j \in 1..Len(before[1].jobs) :
            RecordPresent(before[1].jobs[j].name, before[1].device)

\* C27: when compile is called without basis_gates (as every compile here
\* is), each queued job records the basis gate set u1,u2,u3,cx,id, and the
\* simulator circuit built for a local device is expanded over that same set.
C27_DefaultBasisRecorded ==
    \A i \in 1..Len(to_execute) : \A j \in 1..Len(to_execute[i].jobs) :
        LET job == to_execute[i].jobs[j]
        IN  /\ job.basis_gates = DefaultBasis
            /\ to_execute[i].device \in local_devices =>
                   job.compiled_circuit = simulator_circuit(job.qasm_compiled, DefaultBasis)

SeedValues == {"None", RandomSeed, "7"}

\* What run hands over for the batch of device, and to whom.
Invocation(device, jobs) ==
    IF device \in online_devices
    THEN [collaborator |-> "run_job", jobs |-> online_jobs(jobs),
          submitted |-> batch_check(jobs)]
    ELSE [collaborator |-> local_engine(device), jobs |-> local_jobs(jobs),
          submitted |-> batch_check(<<>>)]

RegistrationOps == {"add_circuit", "create_circuit", "load_qasm"}

\* The step is a call of add_circuit, create_circuit or load_qasm.
Registration == pc = "idle" /\ ret'.op \in RegistrationOps

\* The entry is as a registration makes it: the circuit object and nothing
\* else, no record of any execution.
FreshEntry(entry, circuit_object) == entry = NewCircuit(circuit_object)

\* C29: registering a circuit under a name (add_circuit, create_circuit,
\* load_qasm) replaces the whole entry of that name, so that no record stored
\* under it is left, and leaves every other entry and every queued job as it
\* was; and no step of any operation removes a name from the catalog.
C29_RegistrationReplacesEntry ==
    [][/\ \A n \in Names : circuits[n].present => circuits'[n].present
       /\ Registration =>
              /\ to_execute' = to_execute
              /\ \A n \in Names :
                     \/ circuits'[n] = circuits[n]
                     \/ /\ \E object \in CircuitObjects \cup {FreshCircuit, ParsedCircuit} :
                               FreshEntry(circuits'[n], object)
                        /\ \A m \in Names \ {n} : circuits'[m] = circuits[m]
              /\ (ret'.op \in {"add_circuit", "create_circuit"} /\ ret'.kind = "return") =>
                     \E n \in Names : FreshEntry(circuits'[n], ret'.result)
              /\ (ret'.op = "load_qasm" /\ ret'.status = "COMPLETED") =>
                     \E n \in Names : FreshEntry(circuits'[n], ParsedCircuit)]_vars

\* A circuit has been registered again while a job compiled from the object
\* it was registered with before is still queued under its name.
C29_Witness ==
    /\ pc = "idle"
    /\ ret.op \in RegistrationOps
    /\ \E i \in 1..Len(to_execute) : \E j \in 1..Len(to_execute[i].jobs) :
           LET job == to_execute[i].jobs[j]
           IN  /\ circuits[job.name].present
               /\ job.qasm_compiled[1] # circuits[job.name].circuit

====
